---- MODULE Spec2Model ----
(***************************************************************************)
(* PluginManager (src/src/core/plugins/PluginManager.ts): the coordinator  *)
(* that holds the loaded plugin list and the set of enabled plugin ids,    *)
(* stamps the enabled flag on every load and every change of the set, and  *)
(* derives the active views (SDK configs, command paths, key).             *)
(*                                                                         *)
(* A JavaScript Set keeps insertion order and Array.from(set) returns it,  *)
(* so the enabled-id Set is a duplicate-free sequence in insertion order.  *)
(* Strings are TLA+ strings; the key is built by concatenation.            *)
(***************************************************************************)
EXTENDS Integers, Sequences, FiniteSets, TLC

VARIABLES
    plugins,            \* this.plugins: ClaudianPlugin[]
    enabledPluginIds,   \* this.enabledPluginIds: Set<string>, insertion order
    pendingLoads,       \* loadPlugins() promises whose caller has not resumed
    last,               \* the most recent call: name, argument, return value
    pre,                \* the state just before that call, when the call was
                        \* togglePlugin, enablePlugin or disablePlugin
    held                \* the array a caller got from getPlugins(), held until
                        \* the caller's next call

vars == <<plugins, enabledPluginIds, pendingLoads, last, pre, held>>

---------------------------------------------------------------------------
(* Bounds of the model. *)

MaxIds == 2         \* longest argument of setEnabledPluginIds
MaxPending == 1     \* loadPlugins() promises outstanding at once
MaxArrayEdits == 1  \* changes a caller makes to one array it got from getPlugins()

---------------------------------------------------------------------------
(* The plugin records the registry can supply. *)

PluginIds == {"a", "B", "c@m"}

\* The discovery-time status each plugin of the catalogue can be found in.
StatusesOf(id) ==
    IF id = "B" THEN {"available", "invalid-manifest"}
                ELSE {"available", "unavailable"}

NameOf(id) == "Plugin " \o id
InstallPathOf(id) == "/i/" \o id
PluginPathOf(id) == InstallPathOf(id) \o "/.claude-plugin"

\* The enabled flag the storage puts on the record it hands over.
SourceEnabledOf(id) == id = "B"

\* interface ClaudianPlugin
ClaudianPlugin(id, status, enabled) ==
    [id |-> id, name |-> NameOf(id), installPath |-> InstallPathOf(id),
     pluginPath |-> PluginPathOf(id), status |-> status, enabled |-> enabled]

RegistryRecords ==
    UNION {{ClaudianPlugin(id, st, SourceEnabledOf(id)) : st \in StatusesOf(id)} :
           id \in PluginIds}

UniqueIds(ps) ==
    \A i, j \in 1..Len(ps) : ps[i].id = ps[j].id => i = j

\* What storage.loadPlugins() may return: the plugins of the catalogue in any
\* number and order, identifiers unique within the list.
RegistryLists ==
    {l \in UNION {[1..n -> RegistryRecords] : n \in 0..Cardinality(PluginIds)} :
        UniqueIds(l)}

\* The arguments a caller may pass to setEnabledPluginIds (duplicates allowed).
IdLists == UNION {[1..n -> PluginIds] : n \in 0..MaxIds}

---------------------------------------------------------------------------
(* Set<string>: a duplicate-free sequence in insertion order. *)

SetHas(set, x) == \E i \in 1..Len(set) : set[i] = x

SetAdd(set, x) == IF SetHas(set, x) THEN set ELSE Append(set, x)

SetDelete(set, x) == SelectSeq(set, LAMBDA y : y # x)

RECURSIVE NewSetFrom(_, _)
NewSetFrom(set, ids) ==
    IF ids = <<>> THEN set ELSE NewSetFrom(SetAdd(set, Head(ids)), Tail(ids))

\* new Set(ids)
NewSet(ids) == NewSetFrom(<<>>, ids)

\* Array.from(set)
ArrayFrom(set) == set

Members(seq) == {seq[i] : i \in 1..Len(seq)}

---------------------------------------------------------------------------
(* The loops of setEnabledPluginIds and loadPlugins. *)

\* for (const plugin of this.plugins) plugin.enabled = this.enabledPluginIds.has(plugin.id)
ApplyEnabledState(ps, set) ==
    [i \in 1..Len(ps) |-> [ps[i] EXCEPT !.enabled = SetHas(set, ps[i].id)]]

\* this.plugins.find((p) => p.id === pluginId): the first index, 0 for undefined
FindPlugin(ps, pluginId) ==
    IF \E i \in 1..Len(ps) : ps[i].id = pluginId
    THEN CHOOSE i \in 1..Len(ps) :
            /\ ps[i].id = pluginId
            /\ \A j \in 1..(i - 1) : ps[j].id # pluginId
    ELSE 0

\* The record of a call: duringLoad says that a loadPlugins() promise was
\* outstanding when the call was made, repeat that the call before it was the
\* same call with the same argument.
Call(op, arg, ret, threw) ==
    [op |-> op, arg |-> arg, ret |-> ret, threw |-> threw,
     duringLoad |-> pendingLoads > 0,
     repeat |-> (last.op = op /\ last.arg = arg)]

\* What a loadPlugins call records as its argument when the storage threw.
StorageError == <<[error |-> "storage.loadPlugins() threw"]>>

Snapshot == [plugins |-> plugins, ids |-> enabledPluginIds]

NoSnapshot == [plugins |-> <<>>, ids |-> <<>>]

\* The caller holds no array of the coordinator's plugins.
NoArray == [live |-> FALSE, shared |-> FALSE, items |-> <<>>, edits |-> 0]

---------------------------------------------------------------------------
(* The read views, as functions of this.plugins. *)

\* this.plugins.filter((plugin) => plugin.enabled && plugin.status === 'available')
getActivePlugins(ps) ==
    SelectSeq(ps, LAMBDA plugin : plugin.enabled /\ plugin.status = "available")

\* [...this.plugins]
getPlugins(ps) == [i \in 1..Len(ps) |-> ps[i]]


\* Mutant: the install path in place of the manifest path.
getActivePluginConfigs_installPath(ps) ==
    LET active == getActivePlugins(ps) IN
    [i \in 1..Len(active) |-> [type |-> "local", path |-> active[i].installPath]]

getActivePluginConfigs(ps) ==
    LET active == getActivePlugins(ps) IN
    [i \in 1..Len(active) |-> [type |-> "local", path |-> active[i].pluginPath]]


\* Mutant: only the status "unavailable" is reported.
getUnavailableEnabledPlugins_onlyUnavailable(ps) ==
    LET found == SelectSeq(ps, LAMBDA plugin :
                               plugin.enabled /\ plugin.status = "unavailable") IN
    [i \in 1..Len(found) |-> found[i].id]

getUnavailableEnabledPlugins(ps) ==
    LET found == SelectSeq(ps, LAMBDA plugin :
                               plugin.enabled /\ plugin.status # "available") IN
    [i \in 1..Len(found) |-> found[i].id]

hasEnabledPlugins(ps) == Len(getActivePlugins(ps)) > 0

getEnabledCount(ps) == Len(getActivePlugins(ps))

\* The collation order of the catalogue's identifiers ("a" < "B" < "c@m";
\* by code units "B" would come first).
CollationRank(id) ==
    CASE id = "a" -> 1
      [] id = "B" -> 2
      [] id = "c@m" -> 3


\* The order of the catalogue's identifiers by UTF-16 code units.
CodeUnitRank(id) ==
    CASE id = "B" -> 1
      [] id = "a" -> 2
      [] id = "c@m" -> 3

\* Mutant: the identifiers are compared by code units (a.id < b.id).
localeCompare_codeUnits(a, b) ==
    IF CodeUnitRank(a) < CodeUnitRank(b) THEN -1
    ELSE IF CodeUnitRank(a) > CodeUnitRank(b) THEN 1
    ELSE 0

\* a.localeCompare(b): negative, zero or positive
localeCompare(a, b) ==
    IF CollationRank(a) < CollationRank(b) THEN -1
    ELSE IF CollationRank(a) > CollationRank(b) THEN 1
    ELSE 0

\* Array.prototype.sort is stable: an element goes behind every element that
\* does not compare greater than it.
RECURSIVE InsertById(_, _)
InsertById(sorted, plugin) ==
    IF sorted = <<>> THEN <<plugin>>
    ELSE IF localeCompare(Head(sorted).id, plugin.id) <= 0
         THEN <<Head(sorted)>> \o InsertById(Tail(sorted), plugin)
         ELSE <<plugin>> \o sorted

RECURSIVE SortFrom(_, _)
SortFrom(sorted, rest) ==
    IF rest = <<>> THEN sorted
    ELSE SortFrom(InsertById(sorted, Head(rest)), Tail(rest))

\* .sort((a, b) => a.id.localeCompare(b.id))
SortById(ps) == SortFrom(<<>>, ps)

\* strings.join(sep)
RECURSIVE Join(_, _)
Join(strings, sep) ==
    IF strings = <<>> THEN ""
    ELSE IF Len(strings) = 1 THEN strings[1]
    ELSE strings[1] \o sep \o Join(Tail(strings), sep)


\* Mutant: the sort of line 98 left out.
getPluginsKey_unsorted(ps) ==
    LET activePlugins == getActivePlugins(ps) IN
    IF Len(activePlugins) = 0 THEN ""
    ELSE Join([i \in 1..Len(activePlugins) |->
                  activePlugins[i].id \o ":" \o activePlugins[i].pluginPath], "|")

\* Mutant: the key is built from every enabled plugin, available or not.
getPluginsKey_enabledOnly(ps) ==
    LET activePlugins == SortById(SelectSeq(ps, LAMBDA plugin : plugin.enabled)) IN
    IF Len(activePlugins) = 0 THEN ""
    ELSE Join([i \in 1..Len(activePlugins) |->
                  activePlugins[i].id \o ":" \o activePlugins[i].pluginPath], "|")

getPluginsKey(ps) ==
    LET activePlugins == SortById(getActivePlugins(ps)) IN
    IF Len(activePlugins) = 0 THEN ""
    ELSE Join([i \in 1..Len(activePlugins) |->
                  activePlugins[i].id \o ":" \o activePlugins[i].pluginPath], "|")

hasPlugins(ps) == Len(ps) > 0


\* Mutant: the manifest path in place of the install path.
getPluginCommandPaths_manifestPath(ps) ==
    LET active == getActivePlugins(ps) IN
    [i \in 1..Len(active) |->
        [pluginName |-> active[i].name, commandsPath |-> active[i].pluginPath]]

getPluginCommandPaths(ps) ==
    LET active == getActivePlugins(ps) IN
    [i \in 1..Len(active) |->
        [pluginName |-> active[i].name, commandsPath |-> active[i].installPath]]

---------------------------------------------------------------------------
(* Operations. *)

Init ==
    /\ plugins = <<>>
    /\ enabledPluginIds = <<>>
    /\ pendingLoads = 0
    /\ last = [op |-> "constructor", arg |-> <<>>, ret |-> <<>>, threw |-> FALSE,
               duringLoad |-> FALSE, repeat |-> FALSE]
    /\ pre = NoSnapshot
    /\ held = NoArray


\* Mutant: the loop of lines 34-36 left out.
setEnabledPluginIds_noRestamp(ids) ==
    /\ enabledPluginIds' = NewSet(ids)
    /\ plugins' = plugins
    /\ last' = Call("setEnabledPluginIds", ids, <<>>, FALSE)
    /\ pre' = NoSnapshot
    /\ held' = NoArray
    /\ UNCHANGED pendingLoads

setEnabledPluginIds(ids) ==
    /\ enabledPluginIds' = NewSet(ids)
    /\ plugins' = ApplyEnabledState(plugins, enabledPluginIds')
    /\ last' = Call("setEnabledPluginIds", ids, <<>>, FALSE)
    /\ pre' = NoSnapshot
    /\ held' = NoArray
    /\ UNCHANGED pendingLoads


\* Mutant: the loop of lines 46-48 left out.
loadPlugins_noStamp(raw) ==
    /\ plugins' = raw
    /\ last' = Call("loadPlugins", raw, <<>>, FALSE)
    /\ pre' = NoSnapshot
    /\ UNCHANGED enabledPluginIds
    /\ held' = NoArray

\* Mutant: the load drops the enabled ids that have no plugin in the new list.
loadPlugins_prunes(raw) ==
    /\ enabledPluginIds' =
          SelectSeq(enabledPluginIds, LAMBDA id : \E i \in 1..Len(raw) : raw[i].id = id)
    /\ plugins' = ApplyEnabledState(raw, enabledPluginIds')
    /\ last' = Call("loadPlugins", raw, <<>>, FALSE)
    /\ pre' = NoSnapshot
    /\ held' = NoArray


\* Mutant: the new plugins are pushed onto the list that is there.
loadPlugins_appends(raw) ==
    /\ plugins' = ApplyEnabledState(plugins \o raw, enabledPluginIds)
    /\ last' = Call("loadPlugins", raw, <<>>, FALSE)
    /\ pre' = NoSnapshot
    /\ UNCHANGED enabledPluginIds
    /\ held' = NoArray


\* Mutant: a plugin the storage hands over enabled stays enabled.
loadPlugins_sourceOr(raw) ==
    /\ plugins' = [i \in 1..Len(raw) |->
                      [raw[i] EXCEPT !.enabled =
                          raw[i].enabled \/ SetHas(enabledPluginIds, raw[i].id)]]
    /\ last' = Call("loadPlugins", raw, <<>>, FALSE)
    /\ pre' = NoSnapshot
    /\ UNCHANGED enabledPluginIds
    /\ held' = NoArray

\* The body of loadPlugins. It has no await: it runs to its end when called.
loadPlugins(raw) ==
    /\ plugins' = ApplyEnabledState(raw, enabledPluginIds)
    /\ last' = Call("loadPlugins", raw, <<>>, FALSE)
    /\ pre' = NoSnapshot
    /\ UNCHANGED enabledPluginIds
    /\ held' = NoArray


\* Mutant: the error is caught, the list emptied and the promise fulfilled.
loadPluginsThrows_swallowed ==
    /\ plugins' = <<>>
    /\ last' = Call("loadPlugins", StorageError, <<>>, FALSE)
    /\ pre' = NoSnapshot
    /\ UNCHANGED enabledPluginIds
    /\ held' = NoArray

\* storage.loadPlugins() throws: the assignment of line 43 never happens and
\* the promise is rejected.
loadPluginsThrows ==
    /\ last' = Call("loadPlugins", StorageError, <<>>, TRUE)
    /\ pre' = NoSnapshot
    /\ held' = NoArray
    /\ UNCHANGED <<plugins, enabledPluginIds>>

\* await manager.loadPlugins(): the caller goes on when the promise settles.
AwaitedLoad ==
    /\ \/ \E raw \in RegistryLists : loadPlugins(raw)
       \/ loadPluginsThrows
    /\ UNCHANGED pendingLoads

\* manager.loadPlugins() not awaited: the promise stays outstanding while the
\* caller makes further calls.
DetachedLoad ==
    /\ pendingLoads < MaxPending
    /\ \/ \E raw \in RegistryLists : loadPlugins(raw)
       \/ loadPluginsThrows
    /\ pendingLoads' = pendingLoads + 1

\* An outstanding loadPlugins() promise is taken up.
LoadSettled ==
    /\ pendingLoads > 0
    /\ pendingLoads' = pendingLoads - 1
    /\ UNCHANGED <<plugins, enabledPluginIds, last, pre, held>>

\* Mutant: the flag is flipped and the Set is left alone.
togglePlugin_flagOnly(pluginId) ==
    LET i == FindPlugin(plugins, pluginId) IN
    /\ IF i = 0
       THEN UNCHANGED plugins
       ELSE plugins' = [plugins EXCEPT ![i].enabled = ~plugins[i].enabled]
    /\ UNCHANGED enabledPluginIds
    /\ last' = Call("togglePlugin", <<pluginId>>, ArrayFrom(enabledPluginIds'), FALSE)
    /\ pre' = Snapshot
    /\ held' = NoArray
    /\ UNCHANGED pendingLoads

\* Mutant: the delete of line 119 left out.
togglePlugin_noDelete(pluginId) ==
    LET i == FindPlugin(plugins, pluginId) IN
    /\ IF i = 0
       THEN UNCHANGED <<plugins, enabledPluginIds>>
       ELSE IF plugins[i].enabled
            THEN /\ UNCHANGED enabledPluginIds
                 /\ plugins' = [plugins EXCEPT ![i].enabled = FALSE]
            ELSE /\ enabledPluginIds' = SetAdd(enabledPluginIds, pluginId)
                 /\ plugins' = [plugins EXCEPT ![i].enabled = TRUE]
    /\ last' = Call("togglePlugin", <<pluginId>>, ArrayFrom(enabledPluginIds'), FALSE)
    /\ pre' = Snapshot
    /\ held' = NoArray
    /\ UNCHANGED pendingLoads


\* Mutant: the ids of the loaded enabled plugins are returned.
togglePlugin_returnsLoadedOnly(pluginId) ==
    LET i == FindPlugin(plugins, pluginId)
        on(ps) == SelectSeq(ps, LAMBDA plugin : plugin.enabled) IN
    /\ IF i = 0
       THEN UNCHANGED <<plugins, enabledPluginIds>>
       ELSE IF plugins[i].enabled
            THEN /\ enabledPluginIds' = SetDelete(enabledPluginIds, pluginId)
                 /\ plugins' = [plugins EXCEPT ![i].enabled = FALSE]
            ELSE /\ enabledPluginIds' = SetAdd(enabledPluginIds, pluginId)
                 /\ plugins' = [plugins EXCEPT ![i].enabled = TRUE]
    /\ last' = Call("togglePlugin", <<pluginId>>,
                    [k \in 1..Len(on(plugins')) |-> on(plugins')[k].id], FALSE)
    /\ pre' = Snapshot
    /\ held' = NoArray
    /\ UNCHANGED pendingLoads

togglePlugin(pluginId) ==
    LET i == FindPlugin(plugins, pluginId) IN
    /\ IF i = 0
       THEN UNCHANGED <<plugins, enabledPluginIds>>
       ELSE IF plugins[i].enabled
            THEN /\ enabledPluginIds' = SetDelete(enabledPluginIds, pluginId)
                 /\ plugins' = [plugins EXCEPT ![i].enabled = FALSE]
            ELSE /\ enabledPluginIds' = SetAdd(enabledPluginIds, pluginId)
                 /\ plugins' = [plugins EXCEPT ![i].enabled = TRUE]
    /\ last' = Call("togglePlugin", <<pluginId>>, ArrayFrom(enabledPluginIds'), FALSE)
    /\ pre' = Snapshot
    /\ held' = NoArray
    /\ UNCHANGED pendingLoads


\* Mutant: the test for a found plugin left out of line 135.
enablePlugin_unknownAdded(pluginId) ==
    LET i == FindPlugin(plugins, pluginId) IN
    /\ IF i = 0
       THEN /\ enabledPluginIds' = SetAdd(enabledPluginIds, pluginId)
            /\ UNCHANGED plugins
       ELSE IF ~plugins[i].enabled
            THEN /\ enabledPluginIds' = SetAdd(enabledPluginIds, pluginId)
                 /\ plugins' = [plugins EXCEPT ![i].enabled = TRUE]
            ELSE UNCHANGED <<plugins, enabledPluginIds>>
    /\ last' = Call("enablePlugin", <<pluginId>>, ArrayFrom(enabledPluginIds'), FALSE)
    /\ pre' = Snapshot
    /\ held' = NoArray
    /\ UNCHANGED pendingLoads

enablePlugin(pluginId) ==
    LET i == FindPlugin(plugins, pluginId) IN
    /\ IF i # 0 /\ ~plugins[i].enabled
       THEN /\ enabledPluginIds' = SetAdd(enabledPluginIds, pluginId)
            /\ plugins' = [plugins EXCEPT ![i].enabled = TRUE]
       ELSE UNCHANGED <<plugins, enabledPluginIds>>
    /\ last' = Call("enablePlugin", <<pluginId>>, ArrayFrom(enabledPluginIds'), FALSE)
    /\ pre' = Snapshot
    /\ held' = NoArray
    /\ UNCHANGED pendingLoads


\* Mutant: disablePlugin flips the plugin as togglePlugin does.
disablePlugin_asToggle(pluginId) ==
    LET i == FindPlugin(plugins, pluginId) IN
    /\ IF i = 0
       THEN UNCHANGED <<plugins, enabledPluginIds>>
       ELSE IF plugins[i].enabled
            THEN /\ enabledPluginIds' = SetDelete(enabledPluginIds, pluginId)
                 /\ plugins' = [plugins EXCEPT ![i].enabled = FALSE]
            ELSE /\ enabledPluginIds' = SetAdd(enabledPluginIds, pluginId)
                 /\ plugins' = [plugins EXCEPT ![i].enabled = TRUE]
    /\ last' = Call("disablePlugin", <<pluginId>>, ArrayFrom(enabledPluginIds'), FALSE)
    /\ pre' = Snapshot
    /\ held' = NoArray
    /\ UNCHANGED pendingLoads

\* Mutant: the id is deleted from the Set also when no plugin has it.
disablePlugin_unknownRemoved(pluginId) ==
    LET i == FindPlugin(plugins, pluginId) IN
    /\ enabledPluginIds' = SetDelete(enabledPluginIds, pluginId)
    /\ IF i # 0
       THEN plugins' = [plugins EXCEPT ![i].enabled = FALSE]
       ELSE UNCHANGED plugins
    /\ last' = Call("disablePlugin", <<pluginId>>, ArrayFrom(enabledPluginIds'), FALSE)
    /\ pre' = Snapshot
    /\ held' = NoArray
    /\ UNCHANGED pendingLoads

disablePlugin(pluginId) ==
    LET i == FindPlugin(plugins, pluginId) IN
    /\ IF i # 0 /\ plugins[i].enabled
       THEN /\ enabledPluginIds' = SetDelete(enabledPluginIds, pluginId)
            /\ plugins' = [plugins EXCEPT ![i].enabled = FALSE]
       ELSE UNCHANGED <<plugins, enabledPluginIds>>
    /\ last' = Call("disablePlugin", <<pluginId>>, ArrayFrom(enabledPluginIds'), FALSE)
    /\ pre' = Snapshot
    /\ held' = NoArray
    /\ UNCHANGED pendingLoads

\* A caller that awaits every load (the single-writer use of the class).
Next ==
    \/ \E ids \in IdLists : setEnabledPluginIds(ids)
    \/ AwaitedLoad
    \/ \E pluginId \in PluginIds : togglePlugin(pluginId)
    \/ \E pluginId \in PluginIds : enablePlugin(pluginId)
    \/ \E pluginId \in PluginIds : disablePlugin(pluginId)

Spec == Init /\ [][Next]_vars

\* Callers that set the enabled ids and load without awaiting the loads.
NextInterleaved ==
    \/ \E ids \in IdLists : setEnabledPluginIds(ids)
    \/ DetachedLoad
    \/ LoadSettled

SpecInterleaved == Init /\ [][NextInterleaved]_vars

\* The read views, by name.
OtherViews == {"getActivePluginConfigs", "getUnavailableEnabledPlugins",
               "hasEnabledPlugins", "getEnabledCount", "hasPlugins",
               "getPluginCommandPaths"}

Views == OtherViews \cup {"getPlugins", "getPluginsKey"}

\* What the view of that name returns for the list ps.
ViewResult(view, ps) ==
    CASE view = "getPlugins" -> getPlugins(ps)
      [] view = "getActivePluginConfigs" -> getActivePluginConfigs(ps)
      [] view = "getUnavailableEnabledPlugins" -> getUnavailableEnabledPlugins(ps)
      [] view = "hasEnabledPlugins" -> hasEnabledPlugins(ps)
      [] view = "getEnabledCount" -> getEnabledCount(ps)
      [] view = "getPluginsKey" -> getPluginsKey(ps)
      [] view = "hasPlugins" -> hasPlugins(ps)
      [] view = "getPluginCommandPaths" -> getPluginCommandPaths(ps)

\* An array of n elements whose k-th element is the k-th stored plugin.
ArrayOfStored(n) == [k \in 1..n |-> k]

\* Mutant: getPlugins() hands out this.plugins itself.
getPluginsCalled_sameArray ==
    /\ last' = Call("getPlugins", <<>>, getPlugins(plugins), FALSE)
    /\ held' = [live |-> TRUE, shared |-> TRUE,
                items |-> ArrayOfStored(Len(plugins)), edits |-> 0]
    /\ pre' = NoSnapshot
    /\ UNCHANGED <<plugins, enabledPluginIds, pendingLoads>>

\* A caller calls getPlugins() and keeps the array: a new array (the spread of
\* line 56) whose elements are the stored plugin objects.
getPluginsCalled ==
    /\ last' = Call("getPlugins", <<>>, getPlugins(plugins), FALSE)
    /\ held' = [live |-> TRUE, shared |-> FALSE,
                items |-> ArrayOfStored(Len(plugins)), edits |-> 0]
    /\ pre' = NoSnapshot
    /\ UNCHANGED <<plugins, enabledPluginIds, pendingLoads>>

\* Mutant: the key is built by sorting this.plugins where it is.
getPluginsKeyCalled_sortsStored ==
    /\ plugins' = SortById(plugins)
    /\ last' = Call("getPluginsKey", <<>>, getPluginsKey(plugins), FALSE)
    /\ held' = NoArray
    /\ pre' = NoSnapshot
    /\ UNCHANGED <<enabledPluginIds, pendingLoads>>

\* A caller calls getPluginsKey(): the sort of line 98 is applied to the array
\* that filter() made.
getPluginsKeyCalled ==
    /\ last' = Call("getPluginsKey", <<>>, getPluginsKey(plugins), FALSE)
    /\ pre' = NoSnapshot
    /\ held' = NoArray
    /\ UNCHANGED <<plugins, enabledPluginIds, pendingLoads>>

\* A caller calls one of the other read views.
OtherViewCalled(view) ==
    /\ last' = Call(view, <<>>, ViewResult(view, plugins), FALSE)
    /\ pre' = NoSnapshot
    /\ held' = NoArray
    /\ UNCHANGED <<plugins, enabledPluginIds, pendingLoads>>

\* The plugin object a caller pushes onto an array it holds.
CallerPlugin == ClaudianPlugin("a", "available", TRUE)

ArrayEdits == {"push", "pop", "reverse"}

\* The elements of an array after the caller's change; 0 is CallerPlugin.
EditedItems(items, edit) ==
    CASE edit = "push" -> Append(items, 0)
      [] edit = "pop" -> SubSeq(items, 1, Len(items) - 1)
      [] edit = "reverse" -> [k \in 1..Len(items) |-> items[Len(items) + 1 - k]]

\* The caller changes the array it holds. When that array is the stored one
\* the stored list is what changes.
CallerEditsArray(edit) ==
    LET items == EditedItems(held.items, edit) IN
    /\ held.live
    /\ held.edits < MaxArrayEdits
    /\ IF held.shared
       THEN /\ plugins' = [k \in 1..Len(items) |->
                              IF items[k] = 0 THEN CallerPlugin ELSE plugins[items[k]]]
            /\ held' = [held EXCEPT !.items = ArrayOfStored(Len(items)),
                                    !.edits = @ + 1]
       ELSE /\ UNCHANGED plugins
            /\ held' = [held EXCEPT !.items = items, !.edits = @ + 1]
    /\ UNCHANGED <<enabledPluginIds, pendingLoads, last, pre>>

\* A caller that reads the views between its calls and changes the arrays
\* they return.
NextViews ==
    \/ \E ids \in IdLists : setEnabledPluginIds(ids)
    \/ AwaitedLoad
    \/ \E pluginId \in PluginIds : togglePlugin(pluginId)
    \/ getPluginsCalled
    \/ getPluginsKeyCalled
    \/ \E view \in OtherViews : OtherViewCalled(view)
    \/ \E edit \in ArrayEdits : CallerEditsArray(edit)

SpecViews == Init /\ [][NextViews]_vars

---------------------------------------------------------------------------
(* Properties. *)

Consistent(ps, set) ==
    \A i \in 1..Len(ps) : ps[i].enabled = SetHas(set, ps[i].id)

IsLoaded(id) == \E i \in 1..Len(plugins) : plugins[i].id = id

\* C1: after any calls of setEnabledPluginIds and loadPlugins, also a
\* setEnabledPluginIds made while a loadPlugins() promise is outstanding, once
\* every load has settled each loaded plugin is enabled exactly when its
\* identifier is in the enabled-id Set.
C1_SettledLoadsAndSetsAgree ==
    (pendingLoads = 0 /\ last.op \in {"setEnabledPluginIds", "loadPlugins"})
        => Consistent(plugins, enabledPluginIds)

C1_Witness ==
    /\ pendingLoads = 0
    /\ last.op = "setEnabledPluginIds"
    /\ last.duringLoad
    /\ \E i, j \in 1..Len(plugins) : plugins[i].enabled /\ ~plugins[j].enabled

\* C2: with unique identifiers from the registry, when togglePlugin,
\* enablePlugin or disablePlugin has returned, each loaded plugin is enabled
\* exactly when its identifier is in the enabled-id Set.
C2_FlagsFollowSetAfterToggle ==
    last.op \in {"togglePlugin", "enablePlugin", "disablePlugin"}
        => Consistent(plugins, enabledPluginIds)

C2_Witness ==
    /\ last.op = "togglePlugin"
    /\ IsLoaded(last.arg[1])
    /\ ~SetHas(enabledPluginIds, last.arg[1])
    /\ \E i \in 1..Len(plugins) : plugins[i].enabled

\* The active plugins of a list as a set of (identifier, manifest path).
ActiveSet(ps) ==
    {<<ps[i].id, ps[i].pluginPath>> :
        i \in {k \in 1..Len(ps) : ps[k].enabled /\ ps[k].status = "available"}}

\* Every list a coordinator can hold: a registry list under any enabled Set.
CoordinatorLists ==
    {ApplyEnabledState(l, set) :
        l \in RegistryLists,
        set \in UNION {[1..n -> PluginIds] : n \in 0..Cardinality(PluginIds)}}

\* The lists of other coordinators, by their set of active plugins.
Peers ==
    [A \in {ActiveSet(l) : l \in CoordinatorLists} |->
        {l \in CoordinatorLists : ActiveSet(l) = A}]

C4_ToggleTwiceRestores ==
    [][\A x \in PluginIds :
          (last.op = "togglePlugin" /\ last.arg = <<x>> /\ togglePlugin(x))
            => /\ \A y \in PluginIds :
                     SetHas(enabledPluginIds', y) <=> SetHas(pre.ids, y)
               /\ Len(plugins') = Len(pre.plugins)
               /\ \A i \in 1..Len(plugins') :
                     plugins'[i].id # x
                        => plugins'[i].enabled = pre.plugins[i].enabled]_vars

C4_Witness ==
    /\ last.op = "togglePlugin"
    /\ last.repeat
    /\ IsLoaded(last.arg[1])
    /\ SetHas(enabledPluginIds, last.arg[1])
    /\ Len(enabledPluginIds) >= 2
    /\ Len(plugins) >= 2

NoPluginMatches(x) == FindPlugin(plugins, x) = 0

\* C5: togglePlugin, enablePlugin and disablePlugin on an identifier that no
\* loaded plugin has throw nothing, leave the list and the enabled-id Set as
\* they were and return the members of the Set.
C5_UnknownIdIsNoOp ==
    [][\A x \in PluginIds :
          (NoPluginMatches(x) /\ (togglePlugin(x) \/ enablePlugin(x) \/ disablePlugin(x)))
            => /\ UNCHANGED <<plugins, enabledPluginIds>>
               /\ Members(last'.ret) = Members(enabledPluginIds)
               /\ ~last'.threw]_vars

C5_Witness ==
    /\ last.op \in {"togglePlugin", "disablePlugin"}
    /\ NoPluginMatches(last.arg[1])
    /\ SetHas(enabledPluginIds, last.arg[1])
    /\ Members(last.ret) = Members(enabledPluginIds)
    /\ Len(plugins) > 0

C5_WitnessNothingLoaded ==
    /\ last.op = "enablePlugin"
    /\ plugins = <<>>
    /\ ~SetHas(enabledPluginIds, last.arg[1])

\* C6: getUnavailableEnabledPlugins() reports an identifier exactly when it
\* is in the enabled-id Set and a loaded plugin has it with a status other
\* than "available"; an enabled identifier with no loaded plugin is not
\* reported.
C6_UnavailableEnabledExact ==
    \A x \in PluginIds :
        (x \in Members(getUnavailableEnabledPlugins(plugins)))
            <=> /\ SetHas(enabledPluginIds, x)
                /\ \E i \in 1..Len(plugins) :
                        plugins[i].id = x /\ plugins[i].status # "available"

C6_Witness ==
    /\ \E i \in 1..Len(plugins) :
          /\ plugins[i].status = "invalid-manifest"
          /\ plugins[i].id \in Members(getUnavailableEnabledPlugins(plugins))
    /\ \E i \in 1..Len(plugins) :
          /\ plugins[i].status = "available"
          /\ SetHas(enabledPluginIds, plugins[i].id)
    /\ \E x \in PluginIds : SetHas(enabledPluginIds, x) /\ ~IsLoaded(x)

\* The positions of the list whose plugin is enabled and available.
ActiveIndices == {i \in 1..Len(plugins) : plugins[i].enabled /\ plugins[i].status = "available"}

\* The k-th of them in list order.
NthActive(k) ==
    CHOOSE i \in ActiveIndices : Cardinality({j \in ActiveIndices : j <= i}) = k

\* C7: getActivePluginConfigs() has as many entries as getEnabledCount()
\* says, hasEnabledPlugins() holds exactly when that count is above 0, and the
\* entries are {type: "local", path} of the enabled and available plugins in
\* list order, path being the manifest path and not the install path.
C7_ActiveViewsAgree ==
    LET configs == getActivePluginConfigs(plugins) IN
    /\ Len(configs) = getEnabledCount(plugins)
    /\ hasEnabledPlugins(plugins) <=> getEnabledCount(plugins) > 0
    /\ getEnabledCount(plugins) = Cardinality(ActiveIndices)
    /\ \A k \in 1..Len(configs) :
          /\ configs[k] = [type |-> "local", path |-> plugins[NthActive(k)].pluginPath]
          /\ configs[k].path # plugins[NthActive(k)].installPath

C7_Witness ==
    /\ getEnabledCount(plugins) = 2
    /\ Len(enabledPluginIds) = 3
    /\ Len(plugins) = 3
    /\ NthActive(2) = 3

C7_WitnessNoneActive ==
    /\ Len(enabledPluginIds) > 0
    /\ Len(plugins) > 0
    /\ ~hasEnabledPlugins(plugins)

\* C8: getPluginCommandPaths() has one {pluginName, commandsPath} entry for
\* each enabled and available plugin, for the same plugins in the same order
\* as getActivePluginConfigs(), commandsPath being the install path and not
\* the manifest path.
C8_CommandPathsOfActivePlugins ==
    LET paths == getPluginCommandPaths(plugins)
        configs == getActivePluginConfigs(plugins) IN
    /\ Len(paths) = Cardinality(ActiveIndices)
    /\ Len(paths) = Len(configs)
    /\ \A k \in 1..Len(paths) :
          LET plugin == plugins[NthActive(k)] IN
          /\ paths[k] = [pluginName |-> plugin.name, commandsPath |-> plugin.installPath]
          /\ paths[k].commandsPath # plugin.pluginPath
          /\ configs[k].path = plugin.pluginPath

C8_Witness ==
    /\ Len(getPluginCommandPaths(plugins)) = 1
    /\ \E i \in 1..Len(plugins) : ~plugins[i].enabled /\ plugins[i].status = "available"
    /\ \E i \in 1..Len(plugins) : plugins[i].enabled /\ plugins[i].status # "available"

\* C9: getPluginsKey() is the empty string exactly when getEnabledCount()
\* is 0.
C9_KeyEmptyIffNoneActive ==
    (getPluginsKey(plugins) = "") <=> (getEnabledCount(plugins) = 0)

C9_Witness ==
    /\ getPluginsKey(plugins) = ""
    /\ Len(enabledPluginIds) > 0
    /\ \E i \in 1..Len(plugins) : plugins[i].enabled

C9_WitnessNonEmpty ==
    /\ getPluginsKey(plugins) # ""
    /\ getEnabledCount(plugins) = 1

\* C10: only setEnabledPluginIds, togglePlugin, enablePlugin and
\* disablePlugin change the enabled-id Set; a load, whatever the registry
\* returns, leaves it as it was.
C10_OnlySetAndTogglesChangeTheSet ==
    [][/\ (enabledPluginIds' # enabledPluginIds)
            => \/ last'.op = "setEnabledPluginIds" /\ setEnabledPluginIds(last'.arg)
               \/ last'.op = "togglePlugin" /\ togglePlugin(last'.arg[1])
               \/ last'.op = "enablePlugin" /\ enablePlugin(last'.arg[1])
               \/ last'.op = "disablePlugin" /\ disablePlugin(last'.arg[1])
       /\ (last'.op = "loadPlugins"
             /\ IF last'.arg = StorageError THEN loadPluginsThrows
                                            ELSE loadPlugins(last'.arg))
            => enabledPluginIds' = enabledPluginIds]_vars

C10_Witness ==
    /\ last.op = "loadPlugins"
    /\ ~last.threw
    /\ plugins = <<>>
    /\ Len(enabledPluginIds) >= 2

\* C11: a loadPlugins() that follows a loadPlugins() for which the registry
\* returned the same list, the enabled-id Set being the same, leaves the list,
\* its order, the enabled flags and the Set as the first call left them.
C11_LoadIsIdempotent ==
    [][(/\ last.op = "loadPlugins" /\ ~last.threw
        /\ last'.op = "loadPlugins" /\ ~last'.threw
        /\ last'.arg = last.arg
        /\ loadPlugins(last'.arg))
          => UNCHANGED <<plugins, enabledPluginIds>>]_vars

C11_Witness ==
    /\ last.op = "loadPlugins"
    /\ ~last.threw
    /\ last.repeat
    /\ Len(plugins) >= 2
    /\ \E i, j \in 1..Len(plugins) : plugins[i].enabled /\ ~plugins[j].enabled

\* The list raw with every plugin enabled exactly when its id is among ids.
Stamped(raw, ids) ==
    [i \in 1..Len(raw) |-> [raw[i] EXCEPT !.enabled = (raw[i].id \in Members(ids))]]

IsSetOf(set, ids) ==
    /\ Members(set) = Members(ids)
    /\ Len(set) = Cardinality(Members(ids))

\* C12: setEnabledPluginIds(ids) followed by a load of the list raw and the
\* load of raw followed by setEnabledPluginIds(ids) end in the same state, the
\* list raw stamped from ids and the Set of ids; every setEnabledPluginIds
\* leaves the Set and the flags that its own ids give, whatever was set before.
C12_SetAndLoadCommute ==
    [][/\ (last'.op = "setEnabledPluginIds" /\ setEnabledPluginIds(last'.arg))
            => /\ IsSetOf(enabledPluginIds', last'.arg)
               /\ plugins' = Stamped(plugins, last'.arg)
               /\ (last.op = "loadPlugins" /\ ~last.threw)
                     => plugins' = Stamped(last.arg, last'.arg)
       /\ (/\ last.op = "setEnabledPluginIds"
           /\ last'.op = "loadPlugins" /\ ~last'.threw
           /\ loadPlugins(last'.arg))
            => /\ IsSetOf(enabledPluginIds', last.arg)
               /\ plugins' = Stamped(last'.arg, last.arg)]_vars

C12_Witness ==
    /\ last.op = "setEnabledPluginIds"
    /\ Len(last.arg) > Len(enabledPluginIds)
    /\ \E i, j \in 1..Len(plugins) : plugins[i].enabled /\ ~plugins[j].enabled

C12_WitnessLoadAfterSet ==
    /\ last.op = "loadPlugins"
    /\ \E i, j \in 1..Len(plugins) :
          /\ plugins[i].enabled /\ ~SourceEnabledOf(plugins[i].id)
          /\ ~plugins[j].enabled /\ SourceEnabledOf(plugins[j].id)

\* C13: when the storage throws during loadPlugins, the call throws to its
\* caller and the list, its enabled flags and the enabled-id Set stay as
\* they were.
C13_StorageFailurePropagates ==
    [][(last'.op = "loadPlugins" /\ last'.arg = StorageError /\ loadPluginsThrows)
          => /\ last'.threw
             /\ UNCHANGED <<plugins, enabledPluginIds>>]_vars

C13_Witness ==
    /\ last.op = "loadPlugins"
    /\ last.threw
    /\ Len(plugins) >= 2
    /\ \E i \in 1..Len(plugins) : plugins[i].enabled

IdsOf(ps) == [k \in 1..Len(ps) |-> ps[k].id]

\* C14: getPlugins() returns the stored list in the order the storage gave
\* it, and the array it returns is the caller's own: a push, a pop or a
\* reverse on it changes neither the stored list nor what getPlugins,
\* hasPlugins, getEnabledCount and getPluginsKey return afterwards.
C14_GetPluginsReturnsACopy ==
    [][/\ (last'.op = "getPlugins" /\ getPluginsCalled)
             => /\ last'.ret = plugins
                /\ UNCHANGED <<plugins, enabledPluginIds>>
                /\ (last.op = "loadPlugins" /\ ~last.threw)
                      => IdsOf(last'.ret) = IdsOf(last.arg)
       /\ \A edit \in ArrayEdits :
             CallerEditsArray(edit)
                => /\ UNCHANGED <<plugins, enabledPluginIds>>
                   /\ \A view \in {"getPlugins", "hasPlugins",
                                   "getEnabledCount", "getPluginsKey"} :
                         ViewResult(view, plugins') = ViewResult(view, plugins)]_vars

C14_Witness ==
    /\ last.op = "getPlugins"
    /\ held.live
    /\ held.edits = 1
    /\ held.items # ArrayOfStored(Len(plugins))
    /\ Len(plugins) >= 2
    /\ plugins[1].id = "c@m"
    /\ last.ret = plugins

\* C15: enablePlugin(x) on a loaded plugin leaves it enabled and x in the
\* enabled-id Set, disablePlugin(x) leaves it disabled and x out of the Set;
\* a call on a plugin already in that state, and a second identical call,
\* change nothing and return the Set again; no other identifier's membership
\* changes.
C15_EnableDisableIdempotent ==
    [][\A op \in {"enablePlugin", "disablePlugin"} :
          (/\ last'.op = op
           /\ IF op = "enablePlugin" THEN enablePlugin(last'.arg[1])
                                     ELSE disablePlugin(last'.arg[1]))
            => LET x == last'.arg[1]
                   i == FindPlugin(plugins, x)
                   want == (op = "enablePlugin") IN
               /\ i # 0 => /\ plugins'[i].enabled = want
                           /\ SetHas(enabledPluginIds', x) = want
               /\ \A y \in PluginIds \ {x} :
                     SetHas(enabledPluginIds', y) <=> SetHas(enabledPluginIds, y)
               /\ \A j \in 1..Len(plugins') : j # i => plugins'[j] = plugins[j]
               /\ Members(last'.ret) = Members(enabledPluginIds')
               /\ (i # 0 /\ plugins[i].enabled = want)
                     => UNCHANGED <<plugins, enabledPluginIds>>
               /\ (last.op = op /\ last.arg = last'.arg)
                     => /\ UNCHANGED <<plugins, enabledPluginIds>>
                        /\ last'.ret = last.ret]_vars

C15_Witness ==
    /\ last.op = "disablePlugin"
    /\ last.repeat
    /\ IsLoaded(last.arg[1])
    /\ ~SetHas(enabledPluginIds, last.arg[1])
    /\ Len(enabledPluginIds) >= 1
    /\ last.ret = enabledPluginIds

C15_WitnessEnable ==
    /\ last.op = "enablePlugin"
    /\ last.repeat
    /\ IsLoaded(last.arg[1])
    /\ SetHas(enabledPluginIds, last.arg[1])

\* The identifiers of the catalogue in the order of their collation.
IdsInCollationOrder == <<"a", "B", "c@m">>

IsActiveId(id) ==
    \E i \in 1..Len(plugins) :
        plugins[i].id = id /\ plugins[i].enabled /\ plugins[i].status = "available"

ManifestPathOfLoaded(id) ==
    plugins[CHOOSE i \in 1..Len(plugins) : plugins[i].id = id].pluginPath

RECURSIVE ReferenceKeyOf(_)
ReferenceKeyOf(ids) ==
    IF ids = <<>> THEN ""
    ELSE Head(ids) \o ":" \o ManifestPathOfLoaded(Head(ids))
         \o (IF Tail(ids) = <<>> THEN "" ELSE "|" \o ReferenceKeyOf(Tail(ids)))

\* C16: getPluginsKey() is "<identifier>:<manifestPath>" of the enabled and
\* available plugins, in the order of their identifiers, joined with "|";
\* the plugins B and a loaded in that order give the key of a before B.
C16_KeyIsSortedReference ==
    /\ getPluginsKey(plugins) = ReferenceKeyOf(SelectSeq(IdsInCollationOrder, IsActiveId))
    /\ (/\ Len(plugins) = 2
        /\ plugins[1].id = "B" /\ plugins[2].id = "a"
        /\ IsActiveId("a") /\ IsActiveId("B"))
          => getPluginsKey(plugins) = "a:/i/a/.claude-plugin|B:/i/B/.claude-plugin"

C16_Witness ==
    /\ Len(plugins) = 2
    /\ plugins[1].id = "B" /\ plugins[2].id = "a"
    /\ IsActiveId("a") /\ IsActiveId("B")

\* C17: loadPlugins takes every plugin's enabled flag from the enabled-id
\* Set and never from the record the storage hands over nor from the list
\* held before; with an empty Set every plugin is disabled after the load.
C17_LoadStampsFromTheSet ==
    [][(last'.op = "loadPlugins" /\ ~last'.threw /\ loadPlugins(last'.arg))
          => /\ plugins' = Stamped(last'.arg, enabledPluginIds)
             /\ enabledPluginIds = <<>>
                   => \A i \in 1..Len(plugins') : ~plugins'[i].enabled]_vars

C17_Witness ==
    /\ last.op = "loadPlugins"
    /\ ~last.threw
    /\ enabledPluginIds = <<>>
    /\ \E i \in 1..Len(plugins) : last.arg[i].enabled /\ ~plugins[i].enabled

\* C18: what togglePlugin, enablePlugin and disablePlugin return is the
\* enabled-id Set as the call leaves it: every member once, nothing else,
\* also the identifiers whose plugin is unavailable or not loaded; a new Set
\* made from it is that Set.
C18_ReturnIsTheWholeSet ==
    last.op \in {"togglePlugin", "enablePlugin", "disablePlugin"}
        => /\ Members(last.ret) = Members(enabledPluginIds)
           /\ Len(last.ret) = Cardinality(Members(enabledPluginIds))
           /\ NewSet(last.ret) = enabledPluginIds

C18_Witness ==
    /\ last.op = "togglePlugin"
    /\ IsLoaded(last.arg[1])
    /\ \E x \in Members(last.ret) : ~IsLoaded(x)
    /\ \E i \in 1..Len(plugins) :
          plugins[i].status # "available" /\ plugins[i].id \in Members(last.ret)

\* C19: an identifier in the enabled-id Set that no loaded plugin has stays
\* in the Set through every call but a setEnabledPluginIds, and a load that
\* brings a plugin with that identifier marks it enabled.
C19_UnloadedEnabledIdSurvives ==
    [][\A x \in PluginIds :
          (/\ SetHas(enabledPluginIds, x)
           /\ ~IsLoaded(x)
           /\ ~(last'.op = "setEnabledPluginIds" /\ setEnabledPluginIds(last'.arg)))
            => /\ SetHas(enabledPluginIds', x)
               /\ \A i \in 1..Len(plugins') :
                     plugins'[i].id = x => plugins'[i].enabled]_vars

C19_Witness ==
    /\ last.op = "disablePlugin"
    /\ last.repeat
    /\ ~IsLoaded(last.arg[1])
    /\ SetHas(enabledPluginIds, last.arg[1])
    /\ Len(plugins) > 0

C19_WitnessLoadedLater ==
    /\ last.op = "loadPlugins"
    /\ ~last.threw
    /\ \E i \in 1..Len(plugins) :
          /\ ~last.arg[i].enabled
          /\ plugins[i].enabled
          /\ plugins[i].status = "unavailable"

\* C20: a call of a read view leaves the stored list and the enabled-id Set
\* as they are and returns what the view is for the state at the call; after
\* getPluginsKey() the stored list, getPlugins() and getActivePluginConfigs()
\* are in load order still.
C20_ViewsReadAndRecompute ==
    [][\A view \in Views :
          (/\ last'.op = view
           /\ CASE view = "getPlugins" -> getPluginsCalled
                [] view = "getPluginsKey" -> getPluginsKeyCalled
                [] OTHER -> OtherViewCalled(view))
            => /\ UNCHANGED <<plugins, enabledPluginIds>>
               /\ last'.ret = ViewResult(view, plugins')
               /\ getPlugins(plugins') = getPlugins(plugins)
               /\ getActivePluginConfigs(plugins') = getActivePluginConfigs(plugins)]_vars

C20_Witness ==
    /\ last.op = "getPluginsKey"
    /\ last.ret = "a:/i/a/.claude-plugin|B:/i/B/.claude-plugin"
    /\ IdsOf(getPlugins(plugins)) = <<"B", "a">>
    /\ Len(getActivePluginConfigs(plugins)) = 2
    /\ getActivePluginConfigs(plugins)[1].path = PluginPathOf("B")

====
